---- MODULE Spec2Model ----
(***************************************************************************)
(* Tripo 3D add-on for Blender: the generation task orchestrator.          *)
(*                                                                         *)
(* Specifications over one set of variables:                               *)
(*   SpecRetry   the retry_with_backoff wrappers (api.py and utils.py)     *)
(*   Spec        the task registry and the polling loop of utils.py        *)
(*               (generation / receive_one) against the remote service     *)
(*   SpecImport  the import pipelines (api.py, models.py, __init__.py,     *)
(*               utils.py) on the host's timer thread                      *)
(*   SpecPoll    one polling loop in detail (receive_one of utils.py and   *)
(*               of api.py): delays, errors, the balance query             *)
(*   SpecPollFair  the same loop under fair scheduling                     *)
(*   SpecOperator  the generation operator and the host's main thread      *)
(*   SpecCleanup   ResourceManager and its temporary files                 *)
(*   SpecGenerate  the generate operators, the scene's generating flags    *)
(*                 and search_task (__init__.py, operators.py, api.py)     *)
(*   SpecSelect    search_task's choice of the model url                   *)
(*   SpecServer    BlenderMCPServer (server.py) and its two operators      *)
(*   SpecDispatch  execute_command of server.py on one command             *)
(* Each specification leaves the variables of the others at their idle     *)
(* values.                                                                 *)
(***************************************************************************)
EXTENDS Integers, Sequences, FiniteSets, TLC

VARIABLES
    \* ---- retry_with_backoff ----
    wrapper,        \* which decorator wraps the operation: "api" or "utils"
    outcome,        \* what the wrapped operation does at its 1st, 2nd, ... invocation
    attempt,        \* the loop variable of `for attempt in range(max_retries)`
    retry_delay,    \* the local retry_delay
    invocations,    \* number of times func(*args, **kwargs) was called
    warnings,       \* the attempt numbers logged by get_logger().warning
    waits,          \* the arguments of the time.sleep calls, in order
    rpc,            \* position in the wrapper: "call", "caught", "done"
    result,         \* what the wrapper returned or raised
    \* ---- the remote service ----
    svc,            \* job id -> the status the service holds for it ("none": not issued)
    jtype,          \* job id -> the type the service holds for it
    \* ---- utils.py: the registry and the generation() calls of the session ----
    tripo_tasks,    \* context.scene.tripo_tasks: a sequence of TaskPropertyGroup
    pc,             \* call -> its position in generation / receive_one
    arg,            \* call -> generation's task_type argument: a type, or "id" for a job id
    task,           \* call -> index of the entry generation added (0: none yet)
    task_id,        \* call -> the local task_id of submit_and_download (0: none yet)
    current_task,   \* call -> index of receive_one's current_task (0: none yet)
    status,         \* call -> receive_one's local status ("": none read yet)
    reply,          \* call -> the get_task response in flight to it ("": none)
    import_registered, \* call -> bpy.app.timers.register(import_model) was called
    \* ---- the import pipelines and the host's timer thread ----
    pipeline,       \* job -> the code that imports its model
    ipc,            \* job -> position of the importing call
    file,           \* file name -> the temporary file: "none", "exists", "deleted"
    imp,            \* job -> its import callback: "none", "registered", "running",
                    \*        "finished", "raised"
    timers,         \* bpy.app.timers: the registered callbacks, in registration order
    host,           \* the job whose import callback the host thread is running (0: none)
    import_lock,    \* ModelImporter._import_lock: the job holding it (0: free)
    \* ---- one polling loop (receive_one of utils.py or of api.py) in detail ----
    loop,             \* which receive_one runs: "utils" or "api"
    ppc,              \* position: "query", "balance", "returned", "raised"
    polling_interval, \* the local polling_interval, in half seconds
    sleeps,           \* the arguments of the asyncio.sleep calls, in half seconds
    estimates,        \* running_left_time of the response before each sleep
    observed,         \* the status of the last response ("": none yet)
    qtries,           \* failed attempts of the current status query
    btries,           \* attempts of the balance fetch
    bfailed,          \* the last attempt of the balance fetch failed
    perr,             \* the error that left receive_one, and what raised it
    \* the generation operator and the host's main thread
    launcher,         \* "operators": operators.py, "init": __init__.py
    opc,              \* where the operator's job is: "idle", "submit", "backoff",
                      \* "query", "sleep", "finished", "cancelled"
    host_thread,      \* "free", or "execute": inside the operator's execute
    job,              \* the status of the operator's job ("none": not submitted)
    otries,           \* failed attempts of the submission
    opolls,           \* answers that left the job in flight
    ui_events,        \* events and redraws the host thread has handled
    \* ResourceManager
    manager,          \* "models": models.py, "init": __init__.py
    temp_files,       \* ResourceManager.temp_files
    disk,             \* each file: "none", "present", "locked", "absent"
    cleanup_result,   \* how the last cleanup() ended ("": none since a creation)
    \* the Generate operator, search_task and the scene's progress flags
    gen_launcher,     \* "init": __init__.py (a thread per job), "operators":
                      \* operators.py with api.py (search_task inside execute)
    model_generating, \* scene.text_model_generating
    generating_percentage,  \* scene.text_generating_percentage
    is_importing_model,     \* scene.text_is_importing_model
    search,           \* where each request's search_task is
    ending,           \* how each request's search_task ended ("": it has not)
    executing,        \* the request whose execute the host thread is in, or 0
    \* search_task's choice of the model url
    model_version,    \* result["data"]["input"]["model_version"]
    result_data,      \* result["data"]["result"]: each field's entry (present or not)
    chosen,           \* what search_task did with it ("": nothing yet)
    \* ---- server.py: BlenderMCPServer and its two operators ----
    blendermcp_server_running,  \* scene.blendermcp_server_running
    blendermcp_server,  \* bpy.blendermcp_server holds an instance
    running,          \* self.running
    socket_open,      \* self.socket is a listening socket
    timer,            \* a timer calling this instance's _process_server is registered
    client,           \* "none"; "pending": a connection waits to be accepted;
                      \* "connected": self.client is the accepted connection
    buffer,           \* self.buffer, as a sequence of pieces of commands
    wire,             \* what the client has sent and recv has not returned yet
    sent,             \* the commands the client has sent on its connection
    executed,         \* the commands execute_command was called with
    responses,        \* the status of each response sent with sendall
    last_recv,        \* what the last _process_server call met at recv
    tick_result,      \* what the last _process_server call returned
    \* ---- server.py: execute_command on one command ----
    use_polyhaven,    \* scene.blendermcp_use_polyhaven
    cmd_type,         \* command.get("type")
    handler_ok,       \* the handler returns (TRUE) or raises (FALSE)
    has_view3d,       \* the screen has a VIEW_3D area
    response          \* what execute_command returned ("status" "": nothing yet)

retryVars == <<wrapper, outcome, attempt, retry_delay, invocations, warnings,
               waits, rpc, result>>

svcVars == <<svc, jtype>>

taskVars == <<tripo_tasks, pc, arg, task, task_id, current_task, status, reply,
              import_registered>>

importVars == <<pipeline, ipc, file, imp, timers, host, import_lock>>

pollVars == <<loop, ppc, polling_interval, sleeps, estimates, observed, qtries,
              btries, bfailed, perr>>

opVars == <<launcher, opc, host_thread, job, otries, opolls, ui_events>>

cleanupVars == <<manager, temp_files, disk, cleanup_result>>

genVars == <<gen_launcher, model_generating, generating_percentage,
             is_importing_model, search, ending, executing>>

selVars == <<model_version, result_data, chosen>>

mcpVars == <<blendermcp_server_running, blendermcp_server, running, socket_open,
             timer, client, buffer, wire, sent, executed, responses, last_recv,
             tick_result, use_polyhaven, cmd_type, handler_ok, has_view3d,
             response>>

vars == <<retryVars, svcVars, taskVars, importVars, pollVars, opVars, cleanupVars,
          genVars, selVars, mcpVars>>

(***************************************************************************)
(* retry_with_backoff                                                      *)
(***************************************************************************)

\* TripoConfig.MAX_RETRIES (api.py) and the literal max_retries (utils.py)
MAX_RETRIES == 3

\* retry_delay = 1: the initial delay, in seconds
INITIAL_RETRY_DELAY == 1

Wrappers == {"api", "utils"}

\* The exception classes an operation of the add-on raises.  "Exception" is the
\* plain Exception fetch_data raises for a response code other than 200.
ErrorKinds == {"RequestException", "TripoAPIError", "Exception", "TripoValidationError"}

Outcomes == {"ok"} \cup ErrorKinds

\* The except clause of each wrapper: api.py catches only
\* (requests.exceptions.RequestException, TripoAPIError); utils.py catches Exception.
Caught(w, e) ==
    IF w = "api" THEN e \in {"RequestException", "TripoAPIError"}
    ELSE e \in ErrorKinds

\* The last-attempt test off by one: no attempt of range(max_retries) passes it.
IsLastAttemptOffByOne(a) == a = MAX_RETRIES

\* `if attempt == max_retries - 1:  # Last attempt`
IsLastAttempt(a) == a = MAX_RETRIES - 1

\* retry_delay *= 2
NextDelay(d) == d * 2

\* The value the i-th invocation returns, and the exception object it raises.
ReturnOf(i) == [kind |-> "return", value |-> i]
ErrorOf(i) == [kind |-> "raise", error |-> outcome[i], invocation |-> i]
NoResult == [kind |-> "none"]
\* The for loop running out: the wrapper falls off its end and returns None.
ReturnNone == [kind |-> "return", value |-> 0]

RetryIdle ==
    /\ wrapper = "api"
    /\ outcome = [i \in 1..MAX_RETRIES |-> "ok"]
    /\ attempt = 0
    /\ retry_delay = INITIAL_RETRY_DELAY
    /\ invocations = 0
    /\ warnings = <<>>
    /\ waits = <<>>
    /\ rpc = "done"
    /\ result = NoResult

RetryInit ==
    /\ wrapper \in Wrappers
    /\ outcome \in [1..MAX_RETRIES -> Outcomes]
    /\ attempt = 0
    /\ retry_delay = INITIAL_RETRY_DELAY
    /\ invocations = 0
    /\ warnings = <<>>
    /\ waits = <<>>
    /\ rpc = "call"
    /\ result = NoResult

\* try: return func(*args, **kwargs)   -- the call returns
InvokeReturns ==
    /\ rpc = "call"
    /\ outcome[attempt + 1] = "ok"
    /\ invocations' = invocations + 1
    /\ result' = ReturnOf(attempt + 1)
    /\ rpc' = "done"
    /\ UNCHANGED <<wrapper, outcome, attempt, retry_delay, warnings, waits>>

\* The call raises: an exception the except clause does not name leaves the
\* wrapper at once; one it names is re-raised on the last attempt and handled
\* (warning, sleep) otherwise.
InvokeRaises ==
    /\ rpc = "call"
    /\ outcome[attempt + 1] # "ok"
    /\ invocations' = invocations + 1
    /\ IF Caught(wrapper, outcome[attempt + 1]) /\ ~IsLastAttempt(attempt)
       THEN /\ rpc' = "caught"
            /\ result' = result
       ELSE /\ rpc' = "done"
            /\ result' = ErrorOf(attempt + 1)
    /\ UNCHANGED <<wrapper, outcome, attempt, retry_delay, warnings, waits>>

\* get_logger().warning(f"Attempt {attempt + 1} failed"); time.sleep(retry_delay);
\* retry_delay *= 2; then the next iteration of the for loop, if there is one.
Backoff ==
    /\ rpc = "caught"
    /\ warnings' = Append(warnings, attempt + 1)
    /\ waits' = Append(waits, retry_delay)
    /\ retry_delay' = NextDelay(retry_delay)
    /\ attempt' = attempt + 1
    /\ IF attempt + 1 < MAX_RETRIES
       THEN /\ rpc' = "call"
            /\ result' = result
       ELSE /\ rpc' = "done"
            /\ result' = ReturnNone
    /\ UNCHANGED <<wrapper, outcome, invocations>>

(***************************************************************************)
(* The remote service (external): one status per job id.  A job is queued  *)
(* or running, the two may alternate, and it then takes one final status,  *)
(* which it keeps.                                                         *)
(***************************************************************************)

\* Job ids the service can hold in one run of the model.
MaxIds == 2

Ids == 1..MaxIds

InFlight == {"queued", "running"}

Terminal == {"success", "failed", "banned"}

\* A status value outside TaskStatus.{QUEUED, RUNNING, SUCCESS, FAILED, BANNED}.
Unrecognized == {"cancelled"}

SvcStatuses == InFlight \cup Terminal \cup Unrecognized

SvcIdle ==
    /\ svc = [i \in Ids |-> "none"]
    /\ jtype = [i \in Ids |-> ""]

\* Job 1, a text_to_model job, exists before the session starts (the user knows
\* its id), at any status; the other ids are not issued yet.
SvcInit ==
    \E s \in SvcStatuses :
        /\ svc = [i \in Ids |-> IF i = 1 THEN s ELSE "none"]
        /\ jtype = [i \in Ids |-> IF i = 1 THEN "text_to_model" ELSE ""]

\* The statuses a job holding status s can hold later: a job that is queued or
\* running can be at any status, a job at a final status stays there.
SvcReach(s) == IF s \in InFlight THEN SvcStatuses ELSE {s}

Issued == {i \in Ids : svc[i] # "none"}

\* The id the service gives the next submitted job.
FreshId == CHOOSE i \in Ids \ Issued : \A k \in Ids \ Issued : i <= k

(***************************************************************************)
(* task.py: TaskPropertyGroup                                              *)
(***************************************************************************)

\* The property defaults of a TaskPropertyGroup made by tripo_tasks.add();
\* task_id 0 stands for the empty string.
DefaultTask ==
    [task_id |-> 0, status |-> "not initialized", task_type |-> "",
     prompt |-> "", render_image |-> FALSE]

\* The prompt a job of the given type was submitted with ("": it has none).
PromptOf(type) == IF type = "text_to_model" THEN "prompt" ELSE ""

\* TaskPropertyGroup.init(task_id, task_type, prompt=...): generation passes the
\* prompt of a text_to_model job, and leaves the default "" otherwise;
\* render_image is reset to None.
TaskInit(t, id, type) ==
    [t EXCEPT !.task_id = id, !.task_type = type, !.prompt = PromptOf(type),
              !.render_image = FALSE]

\* TaskPropertyGroup.update(status, ...): a status that is not None is stored.
TaskUpdateStatus(t, s) == [t EXCEPT !.status = s]

\* TaskPropertyGroup.update(render_image=...)
TaskUpdateImage(t) == [t EXCEPT !.render_image = TRUE]

(***************************************************************************)
(* utils.py: generation() and receive_one()                                *)
(***************************************************************************)

\* generation() calls in one run of the model.
MaxRuns == 2

Calls == 1..MaxRuns

\* `for task in tripo_tasks: if task.task_id == tid: ...; break`: the index of the
\* first entry holding the id, 0 when there is none.
FirstIndex(tasks, id) ==
    IF \E i \in DOMAIN tasks : tasks[i].task_id = id
    THEN CHOOSE i \in DOMAIN tasks :
            /\ tasks[i].task_id = id
            /\ \A k \in DOMAIN tasks : tasks[k].task_id = id => i <= k
    ELSE 0

\* The head of receive_one: find the entry by id, add one when none holds it.
FindOrCreate(tasks, id) ==
    IF FirstIndex(tasks, id) # 0
    THEN [tasks |-> tasks, idx |-> FirstIndex(tasks, id)]
    ELSE [tasks |-> Append(tasks, [DefaultTask EXCEPT !.task_id = id]),
          idx |-> Len(tasks) + 1]

\* tripo_tasks.add() putting the new entry in front of the others.
AddedAtFront(tasks) == <<DefaultTask>> \o tasks

\* context.scene.tripo_tasks.add(): a new entry, with the defaults of
\* TaskPropertyGroup, after the entries the collection holds.
Added(tasks) == Append(tasks, DefaultTask)

\* task.init applied to the first entry that already holds the id.
InitTargetFirstWithId(tasks, id) ==
    IF FirstIndex(tasks, id) # 0 THEN FirstIndex(tasks, id) ELSE Len(tasks)

\* `task = context.scene.tripo_tasks.add()` ... `task.init(task_id=task_type)`:
\* the entry generation initialises is the one it has just added, the last.
InitTarget(tasks, id) == Len(tasks)

\* receive_one without its raise statements: only SUCCESS leaves the loop.
AfterUpdateNoRaise(s) == IF s = "success" THEN "download" ELSE "get_task"

\* receive_one returning the task on FAILED as it does on SUCCESS.
AfterUpdateFailedReturns(s) ==
    IF s \in {"success", "failed"} THEN "download"
    ELSE IF s \in InFlight THEN "get_task" ELSE "error"

\* Where receive_one goes after current_task.update(status, ...): it returns the
\* task on SUCCESS, raises on FAILED, on BANNED and on any status that is not
\* QUEUED or RUNNING, and otherwise sleeps and asks again.
AfterUpdate(s) ==
    CASE s = "success" -> "download"
      [] s = "failed" -> "error"
      [] s = "banned" -> "error"
      [] s \notin InFlight -> "error"
      [] OTHER -> "get_task"

TasksIdle ==
    /\ tripo_tasks = <<>>
    /\ pc = [c \in Calls |-> "idle"]
    /\ arg = [c \in Calls |-> ""]
    /\ task = [c \in Calls |-> 0]
    /\ task_id = [c \in Calls |-> 0]
    /\ current_task = [c \in Calls |-> 0]
    /\ status = [c \in Calls |-> ""]
    /\ reply = [c \in Calls |-> ""]
    /\ import_registered = [c \in Calls |-> FALSE]

\* Calls are started in the order of their numbers.
MayStart(c) == pc[c] = "idle" /\ \A b \in Calls : b < c => pc[b] # "idle"

\* The task_type a generating call is given.  The code compares a type only
\* with "text_to_model" (to copy the prompt) and with the empty string, never one
\* job's type with another's, so the type is fixed by the call's number.
TypeOfCall(c) ==
    CASE c % 3 = 1 -> "text_to_model"
      [] c % 3 = 2 -> "image_to_model"
      [] OTHER -> "multiview_to_model"

\* generation(context, task_type) with one of the three generation types:
\* tripo_tasks.add(), then the submission is awaited.
StartGenerate(c) ==
    /\ MayStart(c)
    /\ tripo_tasks' = Added(tripo_tasks)
    /\ task' = [task EXCEPT ![c] = Len(tripo_tasks) + 1]
    /\ arg' = [arg EXCEPT ![c] = TypeOfCall(c)]
    /\ pc' = [pc EXCEPT ![c] = "submit"]
    /\ UNCHANGED <<task_id, current_task, status, reply, import_registered>>
    /\ UNCHANGED <<svcVars, retryVars, importVars, pollVars,
                   opVars, cleanupVars,
                   genVars, selVars, mcpVars>>

\* generation(context, <a job id>): tripo_tasks.add(), task.init(task_id=task_type),
\* then receive_one up to its first `await client.get_task(tid)`.
StartAttach(c, id) ==
    /\ MayStart(c)
    /\ id \in Issued
    /\ LET added == Added(tripo_tasks)
           inited == [added EXCEPT
                         ![InitTarget(added, id)] = TaskInit(@, id, "")]
           found == FindOrCreate(inited, id)
       IN  /\ tripo_tasks' = found.tasks
           /\ current_task' = [current_task EXCEPT ![c] = found.idx]
    /\ task' = [task EXCEPT ![c] = Len(tripo_tasks) + 1]
    /\ arg' = [arg EXCEPT ![c] = "id"]
    /\ task_id' = [task_id EXCEPT ![c] = id]
    /\ pc' = [pc EXCEPT ![c] = "get_task"]
    /\ UNCHANGED <<status, reply, import_registered>>
    /\ UNCHANGED <<svcVars, retryVars, importVars, pollVars,
                   opVars, cleanupVars,
                   genVars, selVars, mcpVars>>

\* client.text_to_model / image_to_model / multiview_to_model returns the new
\* job's id: task.init(task_id, task_type, ...), then receive_one up to its first
\* `await client.get_task(tid)`.
SubmitReturns(c) ==
    /\ pc[c] = "submit"
    /\ Ids \ Issued # {}
    /\ svc' = [svc EXCEPT ![FreshId] = "queued"]
    /\ jtype' = [jtype EXCEPT ![FreshId] = arg[c]]
    /\ LET inited == [tripo_tasks EXCEPT
                         ![task[c]] = TaskInit(@, FreshId, arg[c])]
           found == FindOrCreate(inited, FreshId)
       IN  /\ tripo_tasks' = found.tasks
           /\ current_task' = [current_task EXCEPT ![c] = found.idx]
    /\ task_id' = [task_id EXCEPT ![c] = FreshId]
    /\ pc' = [pc EXCEPT ![c] = "get_task"]
    /\ UNCHANGED <<arg, task, status, reply, import_registered>>
    /\ UNCHANGED <<retryVars, importVars, pollVars,
                   opVars, cleanupVars,
                   genVars, selVars, mcpVars>>

\* The submission raises (no id is issued): `except Exception` of
\* submit_and_download reports it, and generation fails unpacking None.
SubmitRaises(c) ==
    /\ pc[c] = "submit"
    /\ pc' = [pc EXCEPT ![c] = "error"]
    /\ UNCHANGED <<tripo_tasks, arg, task, task_id, current_task, status, reply,
                   import_registered>>
    /\ UNCHANGED <<svcVars, retryVars, importVars, pollVars,
                   opVars, cleanupVars,
                   genVars, selVars, mcpVars>>

\* The service answers get_task with the status the job has reached by then; the
\* response travels back to the call.
GetTaskReplies(c, s) ==
    /\ pc[c] = "get_task"
    /\ s \in SvcReach(svc[task_id[c]])
    /\ svc' = [svc EXCEPT ![task_id[c]] = s]
    /\ reply' = [reply EXCEPT ![c] = s]
    /\ pc' = [pc EXCEPT ![c] = "resume"]
    /\ UNCHANGED <<tripo_tasks, arg, task, task_id, current_task, status,
                   import_registered>>
    /\ UNCHANGED <<jtype, retryVars, importVars, pollVars,
                   opVars, cleanupVars,
                   genVars, selVars, mcpVars>>

\* get_task raises (network error): receive_one logs and re-raises.
GetTaskRaises(c) ==
    /\ pc[c] = "get_task"
    /\ pc' = [pc EXCEPT ![c] = "error"]
    /\ UNCHANGED <<tripo_tasks, arg, task, task_id, current_task, status, reply,
                   import_registered>>
    /\ UNCHANGED <<svcVars, retryVars, importVars, pollVars,
                   opVars, cleanupVars,
                   genVars, selVars, mcpVars>>

\* receive_one resumes with the response: status = task.status;
\* current_task.update(status, ...); the type is taken from the response when the
\* entry has none; then the branch on status.
Resume(c) ==
    /\ pc[c] = "resume"
    /\ LET i == current_task[c]
           s == reply[c]
           written == TaskUpdateStatus(tripo_tasks[i], s)
       IN  /\ tripo_tasks' = [tripo_tasks EXCEPT ![i] =
                  IF written.task_type = ""
                  THEN [written EXCEPT
                           !.task_type = jtype[task_id[c]],
                           !.prompt = IF jtype[task_id[c]] = "text_to_model"
                                      THEN PromptOf(jtype[task_id[c]]) ELSE @]
                  ELSE written]
           /\ status' = [status EXCEPT ![c] = s]
           /\ pc' = [pc EXCEPT ![c] = AfterUpdate(s)]
    /\ reply' = [reply EXCEPT ![c] = ""]
    /\ UNCHANGED <<arg, task, task_id, current_task, import_registered>>
    /\ UNCHANGED <<svcVars, retryVars, importVars, pollVars,
                   opVars, cleanupVars,
                   genVars, selVars, mcpVars>>

\* The downloads return; generation registers import_model with the timers and,
\* when a rendered image was downloaded, stores it in the first entry holding the
\* task's id.
DownloadReturns(c, image) ==
    /\ pc[c] = "download"
    /\ import_registered' = [import_registered EXCEPT ![c] = TRUE]
    /\ LET i == FirstIndex(tripo_tasks, task_id[c])
       IN  tripo_tasks' = IF image /\ i # 0
                          THEN [tripo_tasks EXCEPT ![i] = TaskUpdateImage(@)]
                          ELSE tripo_tasks
    /\ pc' = [pc EXCEPT ![c] = "done"]
    /\ UNCHANGED <<arg, task, task_id, current_task, status, reply>>
    /\ UNCHANGED <<svcVars, retryVars, importVars, pollVars,
                   opVars, cleanupVars,
                   genVars, selVars, mcpVars>>

\* A download raises: reported by `except Exception`; nothing is imported.
DownloadRaises(c) ==
    /\ pc[c] = "download"
    /\ pc' = [pc EXCEPT ![c] = "error"]
    /\ UNCHANGED <<tripo_tasks, arg, task, task_id, current_task, status, reply,
                   import_registered>>
    /\ UNCHANGED <<svcVars, retryVars, importVars, pollVars,
                   opVars, cleanupVars,
                   genVars, selVars, mcpVars>>

\* The exception that leaves generation ("": none).  Every failure inside
\* submit_and_download is caught and reported there, submit_and_download then
\* returns None, and `model_file, render_image_result, task_info =
\* asyncio.run(...)` raises TypeError.
GenerationRaised(c) == IF pc[c] = "error" THEN "TypeError" ELSE ""

(***************************************************************************)
(* One polling loop in detail: receive_one of utils.py and of api.py, with *)
(* the delay it sleeps, the errors it raises and the balance query it      *)
(* makes on success.  Times are counted in half seconds, so that           *)
(* running_left_time * 0.5 of a whole number of seconds is exact.          *)
(***************************************************************************)

\* In-flight observations of one polling loop in one run of the model.
MaxPolls == 3

Loops == {"utils", "api"}

\* n seconds, in half seconds.
Seconds(n) == 2 * n

\* utils.py: `polling_interval = 2`
INITIAL_POLLING_INTERVAL == 2

\* config.py: TripoConfig.POLLING_INTERVAL
POLLING_INTERVAL == 2

\* The response carries no running_left_time.
NoEstimate == -1

\* The values of running_left_time, in seconds, a response carries.
Estimates == {NoEstimate, 0, 3, 8, 10}

Max(a, b) == IF a >= b THEN a ELSE b

\* The statuses a response carries: those of TaskStatus, a value outside it, and
\* "completed", which api.py takes for success.
PollStatuses == SvcStatuses \cup {"completed"}

\* What the status query and the balance fetch raise: a network error
\* (requests.exceptions.RequestException) or, in api.py, the plain Exception
\* fetch_data raises for a response code other than 200.
FetchErrors == {"RequestException", "Exception"}

\* The statuses on which a receive_one returns the task.
SuccessOf(l) == IF l = "utils" THEN {"success"} ELSE {"completed", "success"}

\* utils.py receive_one taking an unknown status for one still in flight.
StatusErrorUnknownLoops(l, s) ==
    CASE s = "failed" -> "TASK_FAILED"
      [] l = "utils" /\ s = "banned" -> "TASK_BANNED"
      [] l = "api" /\ s \notin InFlight -> "UNKNOWN_STATUS"
      [] OTHER -> ""

\* receive_one giving up on a job that is running.
StatusErrorGivesUpRunning(l, s) ==
    CASE s = "failed" -> "TASK_FAILED"
      [] l = "utils" /\ s = "banned" -> "TASK_BANNED"
      [] s # "queued" -> "UNKNOWN_STATUS"
      [] OTHER -> ""

\* The error a receive_one raises on a status it does not return on ("": none,
\* the loop goes on).  utils.py raises TripoAPIError with code TASK_FAILED,
\* TASK_BANNED or UNKNOWN_STATUS; api.py raises TripoAPIError("Task failed: ...")
\* on "failed" and TripoAPIError("Unknown task status: ...") on every status
\* that is not running or queued, "banned" included.
StatusError(l, s) ==
    CASE s = "failed" -> "TASK_FAILED"
      [] l = "utils" /\ s = "banned" -> "TASK_BANNED"
      [] s \notin InFlight -> "UNKNOWN_STATUS"
      [] OTHER -> ""

\* The delay fixed at 2 seconds whatever the response says.
NextIntervalFixed(l, interval, e) == Seconds(POLLING_INTERVAL)

\* The delay of the next sleep, in half seconds.  utils.py: max(2,
\* running_left_time * 0.5) when the response has a running_left_time, else
\* polling_interval * 2.  api.py: TripoConfig.POLLING_INTERVAL.
NextInterval(l, interval, e) ==
    IF l = "api" THEN Seconds(POLLING_INTERVAL)
    ELSE IF e # NoEstimate THEN Max(Seconds(INITIAL_POLLING_INTERVAL), e)
    ELSE interval * 2

\* Whether a failed attempt of the balance fetch is followed by another.
\* api.py: Update_User_balance calls fetch_data, whose wrapper retries the
\* errors it catches until the last attempt.  utils.py: retry_with_backoff
\* decorates an `async def`, so the call the wrapper guards only makes the
\* coroutine and never raises; the fetch is awaited once, in a try whose except
\* logs the error.
BalanceRetried(l, e, tries) ==
    l = "api" /\ Caught("api", e) /\ ~IsLastAttempt(tries)

\* Whether a failed attempt of the status query is followed by another.
\* api.py: fetch_data under retry_with_backoff.  utils.py: client.get_task is
\* awaited with no wrapper.
QueryRetried(l, e, tries) ==
    l = "api" /\ Caught("api", e) /\ ~IsLastAttempt(tries)

\* Whether a failure of the balance fetch stays inside Update_User_balance:
\* utils.py logs it (`except Exception`), api.py has no handler.
BalanceSwallowed(l) == l = "utils"

NoError == [kind |-> "", from |-> ""]

PollIdle ==
    /\ loop = "utils"
    /\ ppc = "returned"
    /\ polling_interval = Seconds(INITIAL_POLLING_INTERVAL)
    /\ sleeps = <<>>
    /\ estimates = <<>>
    /\ observed = ""
    /\ qtries = 0
    /\ btries = 0
    /\ bfailed = FALSE
    /\ perr = NoError

PollInit ==
    /\ loop \in Loops
    /\ ppc = "query"
    /\ polling_interval = Seconds(INITIAL_POLLING_INTERVAL)
    /\ sleeps = <<>>
    /\ estimates = <<>>
    /\ observed = ""
    /\ qtries = 0
    /\ btries = 0
    /\ bfailed = FALSE
    /\ perr = NoError

\* The status query fails: it is tried again, or the error leaves receive_one
\* (logged and re-raised by its `except Exception`).
QueryRaises(e) ==
    /\ ppc = "query"
    /\ qtries' = qtries + 1
    /\ IF QueryRetried(loop, e, qtries)
       THEN UNCHANGED <<ppc, perr>>
       ELSE /\ ppc' = "raised"
            /\ perr' = [kind |-> e, from |-> "query"]
    /\ UNCHANGED <<loop, polling_interval, sleeps, estimates, observed, btries,
                   bfailed>>
    /\ UNCHANGED <<retryVars, svcVars, taskVars, importVars,
                   opVars, cleanupVars,
                   genVars, selVars, mcpVars>>

\* The status query answers with status s and running_left_time e: the loop
\* returns through the balance query, raises, or sleeps and asks again.
QueryReturns(s, e) ==
    /\ ppc = "query"
    /\ s \in InFlight => Len(sleeps) < MaxPolls
    /\ observed' = s
    /\ qtries' = 0
    /\ IF s \in SuccessOf(loop)
       THEN /\ ppc' = "balance"
            /\ UNCHANGED <<perr, polling_interval, sleeps, estimates>>
       ELSE IF StatusError(loop, s) # ""
       THEN /\ ppc' = "raised"
            /\ perr' = [kind |-> StatusError(loop, s), from |-> "status"]
            /\ UNCHANGED <<polling_interval, sleeps, estimates>>
       ELSE /\ polling_interval' = NextInterval(loop, polling_interval, e)
            /\ sleeps' = Append(sleeps, polling_interval')
            /\ estimates' = Append(estimates, e)
            /\ UNCHANGED <<ppc, perr>>
    /\ UNCHANGED <<loop, btries, bfailed>>
    /\ UNCHANGED <<retryVars, svcVars, taskVars, importVars,
                   opVars, cleanupVars,
                   genVars, selVars, mcpVars>>

\* Update_User_balance fetches the balance: receive_one returns the task.
BalanceReturns ==
    /\ ppc = "balance"
    /\ btries' = btries + 1
    /\ bfailed' = FALSE
    /\ ppc' = "returned"
    /\ UNCHANGED <<loop, polling_interval, sleeps, estimates, observed, qtries, perr>>
    /\ UNCHANGED <<retryVars, svcVars, taskVars, importVars,
                   opVars, cleanupVars,
                   genVars, selVars, mcpVars>>

\* An attempt of the balance fetch fails: it is tried again, or it is logged and
\* receive_one returns the task, or the error leaves receive_one.
BalanceRaises(e) ==
    /\ ppc = "balance"
    /\ btries' = btries + 1
    /\ bfailed' = TRUE
    /\ IF BalanceRetried(loop, e, btries)
       THEN UNCHANGED <<ppc, perr>>
       ELSE IF BalanceSwallowed(loop)
       THEN ppc' = "returned" /\ perr' = perr
       ELSE /\ ppc' = "raised"
            /\ perr' = [kind |-> e, from |-> "balance"]
    /\ UNCHANGED <<loop, polling_interval, sleeps, estimates, observed, qtries>>
    /\ UNCHANGED <<retryVars, svcVars, taskVars, importVars,
                   opVars, cleanupVars,
                   genVars, selVars, mcpVars>>

PollNext ==
    \/ \E e \in FetchErrors : QueryRaises(e)
    \/ \E s \in PollStatuses, e \in Estimates : QueryReturns(s, e)
    \/ BalanceReturns
    \/ \E e \in FetchErrors : BalanceRaises(e)

(***************************************************************************)
(* The generation operator (GenerateTextModelOperator.execute of            *)
(* operators.py and of __init__.py) and the host's main thread.  The host   *)
(* calls execute on its main thread; while execute has not returned, the    *)
(* host handles no event and redraws nothing.                               *)
(***************************************************************************)

\* Events the host handles in one run of the model.
MaxEvents == 3

Launchers == {"operators", "init"}

\* Whether the polling runs inside execute.  operators.py:
\* `asyncio.run(search_task(task_id, context, True))` in execute, which returns
\* when search_task has.  __init__.py: `threading.Thread(target=lambda:
\* asyncio.run(search_task(...)))`, `thread.start()`, and execute returns.
PollsInExecute(l) == l = "operators"

OperatorIdle ==
    /\ launcher = "operators"
    /\ opc = "finished"
    /\ host_thread = "free"
    /\ job = "none"
    /\ otries = 0
    /\ opolls = 0
    /\ ui_events = 0

OperatorInit ==
    /\ launcher \in Launchers
    /\ opc = "idle"
    /\ host_thread = "free"
    /\ job = "none"
    /\ otries = 0
    /\ opolls = 0
    /\ ui_events = 0

\* The user presses the button: the host calls execute on its main thread, and
\* execute calls fetch_data(..., method="POST").
Invoke ==
    /\ opc = "idle"
    /\ host_thread = "free"
    /\ host_thread' = "execute"
    /\ opc' = "submit"
    /\ UNCHANGED <<launcher, job, otries, opolls, ui_events>>
    /\ UNCHANGED <<retryVars, svcVars, taskVars, importVars, pollVars, cleanupVars,
                   genVars, selVars, mcpVars>>

\* An attempt of the submission fails.  An error the wrapper catches, before the
\* last attempt: time.sleep(retry_delay), on the thread that called fetch_data,
\* the host's.  Otherwise the error reaches execute's `except Exception`, which
\* reports it and returns {"CANCELLED"}.
ExecuteSubmitRaises(e) ==
    /\ opc = "submit"
    /\ otries' = otries + 1
    /\ IF Caught("api", e) /\ ~IsLastAttempt(otries)
       THEN /\ opc' = "backoff"
            /\ host_thread' = host_thread
       ELSE /\ opc' = "cancelled"
            /\ host_thread' = "free"
    /\ UNCHANGED <<launcher, job, opolls, ui_events>>
    /\ UNCHANGED <<retryVars, svcVars, taskVars, importVars, pollVars, cleanupVars,
                   genVars, selVars, mcpVars>>

\* time.sleep(retry_delay) returns: the next attempt.
ExecuteBackoffEnds ==
    /\ opc = "backoff"
    /\ opc' = "submit"
    /\ UNCHANGED <<launcher, host_thread, job, otries, opolls, ui_events>>
    /\ UNCHANGED <<retryVars, svcVars, taskVars, importVars, pollVars, cleanupVars,
                   genVars, selVars, mcpVars>>

\* The submission returns the job's id: the polling starts, inside execute or
\* on a thread of its own, in which case execute returns {"FINISHED"}.
ExecuteSubmitReturns ==
    /\ opc = "submit"
    /\ job' = "queued"
    /\ opc' = "query"
    /\ host_thread' = IF PollsInExecute(launcher) THEN host_thread ELSE "free"
    /\ UNCHANGED <<launcher, otries, opolls, ui_events>>
    /\ UNCHANGED <<retryVars, svcVars, taskVars, importVars, pollVars, cleanupVars,
                   genVars, selVars, mcpVars>>

\* receive_one's query is answered with status s.  Queued or running: `await
\* asyncio.sleep(...)`.  Any other status: receive_one returns or raises,
\* search_task comes to its end, and so does an execute that was running it.
PollingAnswers(s) ==
    /\ opc = "query"
    /\ s \in SvcReach(job)
    /\ s \in InFlight => opolls < MaxPolls
    /\ job' = s
    /\ IF s \in InFlight
       THEN /\ opc' = "sleep"
            /\ opolls' = opolls + 1
            /\ host_thread' = host_thread
       ELSE /\ opc' = "finished"
            /\ opolls' = opolls
            /\ host_thread' = "free"
    /\ UNCHANGED <<launcher, otries, ui_events>>
    /\ UNCHANGED <<retryVars, svcVars, taskVars, importVars, pollVars, cleanupVars,
                   genVars, selVars, mcpVars>>

\* asyncio.sleep is over: the next query.
PollingSleepEnds ==
    /\ opc = "sleep"
    /\ opc' = "query"
    /\ UNCHANGED <<launcher, host_thread, job, otries, opolls, ui_events>>
    /\ UNCHANGED <<retryVars, svcVars, taskVars, importVars, pollVars, cleanupVars,
                   genVars, selVars, mcpVars>>

\* The host's main thread, not inside an operator, handles an event or redraws.
HostHandlesEvent ==
    /\ host_thread = "free"
    /\ ui_events < MaxEvents
    /\ ui_events' = ui_events + 1
    /\ UNCHANGED <<launcher, opc, host_thread, job, otries, opolls>>
    /\ UNCHANGED <<retryVars, svcVars, taskVars, importVars, pollVars, cleanupVars,
                   genVars, selVars, mcpVars>>

OperatorNext ==
    \/ Invoke
    \/ \E e \in FetchErrors : ExecuteSubmitRaises(e)
    \/ ExecuteBackoffEnds
    \/ ExecuteSubmitReturns
    \/ \E s \in SvcStatuses : PollingAnswers(s)
    \/ PollingSleepEnds
    \/ HostHandlesEvent

(***************************************************************************)
(* ResourceManager (models.py and __init__.py): the temporary files it      *)
(* created, and cleanup().                                                  *)
(***************************************************************************)

\* Temporary files in one run of the model.
MaxFiles == 3

Files == 1..MaxFiles

Managers == {"models", "init"}

\* The `logger` cleanup() uses.  models.py: `from .config import logger` binds
\* the value config.logger has when models.py is imported, which is None
\* (config.py: `logger = None`; only get_logger() sets it, and nothing calls
\* get_logger() at import time).  __init__.py: `logger = setup_logger()`.
LoggerIsNone(m) == m = "models"

\* The file create_temp_file makes next: NamedTemporaryFile gives a name that
\* is not in use.
NextFile == CHOOSE f \in Files : disk[f] = "none" /\ \A g \in Files : disk[g] = "none" => f <= g

RECURSIVE CleanupFrom(_, _, _, _)
\* The loop of cleanup() from the i-th recorded file on, over the file system d:
\* `if os.path.exists(file_path): os.unlink(file_path)` in a try whose except
\* calls logger.error.  os.unlink raises on a file that cannot be deleted; with
\* logger None the handler itself raises AttributeError, which leaves cleanup().
CleanupFrom(m, files, d, i) ==
    IF i > Len(files) THEN [disk |-> d, raised |-> FALSE]
    ELSE IF d[files[i]] = "locked"
    THEN IF LoggerIsNone(m)
         THEN [disk |-> d, raised |-> TRUE]
         ELSE CleanupFrom(m, files, d, i + 1)
    ELSE CleanupFrom(m, files,
                     [d EXCEPT ![files[i]] = IF @ = "present" THEN "absent" ELSE @],
                     i + 1)

CleanupIdle ==
    /\ manager = "models"
    /\ temp_files = <<>>
    /\ disk = [f \in Files |-> "none"]
    /\ cleanup_result = ""

CleanupInit ==
    /\ manager \in Managers
    /\ temp_files = <<>>
    /\ disk = [f \in Files |-> "none"]
    /\ cleanup_result = ""

\* create_temp_file: NamedTemporaryFile(suffix=suffix, delete=False), and the
\* name is appended to temp_files.
CreateTempFile ==
    /\ \E f \in Files : disk[f] = "none"
    /\ disk' = [disk EXCEPT ![NextFile] = "present"]
    /\ temp_files' = Append(temp_files, NextFile)
    /\ cleanup_result' = ""
    /\ UNCHANGED manager
    /\ UNCHANGED <<retryVars, svcVars, taskVars, importVars, pollVars, opVars,
                   genVars, selVars, mcpVars>>

\* A file is removed by someone else (the import's own cleanup timer, the user).
RemovedOutOfBand(f) ==
    /\ disk[f] = "present"
    /\ disk' = [disk EXCEPT ![f] = "absent"]
    /\ UNCHANGED <<manager, temp_files, cleanup_result>>
    /\ UNCHANGED <<retryVars, svcVars, taskVars, importVars, pollVars, opVars,
                   genVars, selVars, mcpVars>>

\* A file becomes undeletable: another process holds it open (Windows), or the
\* permissions of its directory change.
BecomesUndeletable(f) ==
    /\ disk[f] = "present"
    /\ disk' = [disk EXCEPT ![f] = "locked"]
    /\ UNCHANGED <<manager, temp_files, cleanup_result>>
    /\ UNCHANGED <<retryVars, svcVars, taskVars, importVars, pollVars, opVars,
                   genVars, selVars, mcpVars>>

\* cleanup(): the loop over temp_files, then `self.temp_files = []`, which an
\* exception leaving the loop does not reach.
Cleanup ==
    /\ temp_files # <<>>
    /\ LET r == CleanupFrom(manager, temp_files, disk, 1)
       IN  /\ disk' = r.disk
           /\ temp_files' = IF r.raised THEN temp_files ELSE <<>>
           /\ cleanup_result' = IF r.raised THEN "raised" ELSE "returned"
    /\ UNCHANGED manager
    /\ UNCHANGED <<retryVars, svcVars, taskVars, importVars, pollVars, opVars,
                   genVars, selVars, mcpVars>>

CleanupNext ==
    \/ CreateTempFile
    \/ \E f \in Files : RemovedOutOfBand(f)
    \/ \E f \in Files : BecomesUndeletable(f)
    \/ Cleanup

(***************************************************************************)
(* The Generate operator, search_task and the scene's progress flags        *)
(* (text_model_generating, text_generating_percentage,                      *)
(* text_is_importing_model; the image flags are handled by the same code    *)
(* with isTextGenerating False).  __init__.py runs search_task on a thread   *)
(* per request; operators.py runs api.py's search_task inside execute.      *)
(***************************************************************************)

\* Generate requests in one run of the model.
MaxGens == 3

Gens == 1..MaxGens

\* __init__.py execute: `if context.scene.text_model_generating: ... return
\* {"CANCELLED"}`; operators.py execute has no such test.
ChecksFlag(l) == l = "init"

\* __init__.py execute: `thread.start()` and then
\* `context.scene.text_model_generating = True`; operators.py runs
\* asyncio.run(search_task(...)) itself and writes no flag.
Threaded(l) == l = "init"

\* gltf_model_download leaving the importing flag set when the download fails.
ImportingAfterDownloadErrorKept(ok) == ~ok

\* *_is_importing_model when gltf_model_download ends: set to False after the
\* timers are registered, and set to False by its `except Exception`.
ImportingAfterDownload(ok) == FALSE

\* receive_one is being awaited: the job is being monitored.
Monitoring == {"enter", "polling"}

GenerateIdle ==
    /\ gen_launcher = "init"
    /\ model_generating = FALSE
    /\ generating_percentage = 0
    /\ is_importing_model = FALSE
    /\ search = [g \in Gens |-> "finished"]
    /\ ending = [g \in Gens |-> ""]
    /\ executing = 0

GenerateInit ==
    /\ gen_launcher \in {"init", "operators"}
    /\ model_generating = FALSE
    /\ generating_percentage = 0
    /\ is_importing_model = FALSE
    /\ search = [g \in Gens |-> "none"]
    /\ ending = [g \in Gens |-> ""]
    /\ executing = 0

\* The host calls execute for request g, the requests being made in the order
\* of their numbers.  With the flag set (__init__.py) it
\* shows the dialog and returns {"CANCELLED"}; so it does when the submission
\* fails.  Otherwise the job is submitted and search_task is started, on a new
\* thread or inside execute.
GenerateExecute(g, posted) ==
    /\ executing = 0
    /\ search[g] = "none"
    /\ \A h \in Gens : h < g => search[h] # "none"
    /\ IF (ChecksFlag(gen_launcher) /\ model_generating) \/ ~posted
       THEN /\ search' = [search EXCEPT ![g] = "cancelled"]
            /\ executing' = 0
       ELSE /\ search' = [search EXCEPT ![g] = "enter"]
            /\ executing' = g
    /\ UNCHANGED <<gen_launcher, model_generating, generating_percentage,
                   is_importing_model, ending>>
    /\ UNCHANGED <<retryVars, svcVars, taskVars, importVars, pollVars, opVars,
                   cleanupVars, selVars, mcpVars>>

\* __init__.py execute, after thread.start(): `context.scene.text_model_generating
\* = True`, and it returns {"FINISHED"}.
HostWritesFlag ==
    /\ executing # 0
    /\ Threaded(gen_launcher)
    /\ model_generating' = TRUE
    /\ executing' = 0
    /\ UNCHANGED <<gen_launcher, generating_percentage, is_importing_model,
                   search, ending>>
    /\ UNCHANGED <<retryVars, svcVars, taskVars, importVars, pollVars, opVars,
                   cleanupVars, selVars, mcpVars>>

\* operators.py execute: asyncio.run(search_task(...)) has returned, and execute
\* returns {"FINISHED"}.
HostReturns ==
    /\ executing # 0
    /\ ~Threaded(gen_launcher)
    /\ search[executing] = "finished"
    /\ executing' = 0
    /\ UNCHANGED <<gen_launcher, model_generating, generating_percentage,
                   is_importing_model, search, ending>>
    /\ UNCHANGED <<retryVars, svcVars, taskVars, importVars, pollVars, opVars,
                   cleanupVars, selVars, mcpVars>>

\* receive_one: `with progress_tracker:` calls ProgressTracker.__enter__.
TrackerEnter(g) ==
    /\ search[g] = "enter"
    /\ model_generating' = TRUE
    /\ search' = [search EXCEPT ![g] = "polling"]
    /\ UNCHANGED <<gen_launcher, generating_percentage, is_importing_model,
                   ending, executing>>
    /\ UNCHANGED <<retryVars, svcVars, taskVars, importVars, pollVars, opVars,
                   cleanupVars, selVars, mcpVars>>

\* receive_one: progress_tracker.update_progress(progress_value, ...).
UpdateProgress(g) ==
    /\ search[g] = "polling"
    /\ generating_percentage = 0
    /\ generating_percentage' = 50
    /\ UNCHANGED <<gen_launcher, model_generating, is_importing_model, search,
                   ending, executing>>
    /\ UNCHANGED <<retryVars, svcVars, taskVars, importVars, pollVars, opVars,
                   cleanupVars, selVars, mcpVars>>

\* receive_one returns the data (ok) or raises (a failed or unknown status, a
\* network error after the retries, a failure of the balance query): leaving
\* the `with` calls ProgressTracker.__exit__.
ReceiveOneEnds(g, ok) ==
    /\ search[g] = "polling"
    /\ model_generating' = FALSE
    /\ generating_percentage' = 0
    /\ search' = [search EXCEPT ![g] = IF ok THEN "select" ELSE "except"]
    /\ UNCHANGED <<gen_launcher, is_importing_model, ending, executing>>
    /\ UNCHANGED <<retryVars, svcVars, taskVars, importVars, pollVars, opVars,
                   cleanupVars, selVars, mcpVars>>

\* search_task looks for the model's url: with one it sets
\* *_is_importing_model and awaits gltf_model_download; without it raises.
SelectUrl(g, found) ==
    /\ search[g] = "select"
    /\ IF found
       THEN /\ is_importing_model' = TRUE
            /\ search' = [search EXCEPT ![g] = "download"]
       ELSE /\ is_importing_model' = is_importing_model
            /\ search' = [search EXCEPT ![g] = "except"]
    /\ UNCHANGED <<gen_launcher, model_generating, generating_percentage, ending,
                   executing>>
    /\ UNCHANGED <<retryVars, svcVars, taskVars, importVars, pollVars, opVars,
                   cleanupVars, selVars, mcpVars>>

\* gltf_model_download ends, having registered the import (ok) or caught and
\* reported its error; search_task then resets the flags ("Reset states").
DownloadEnds(g, ok) ==
    /\ search[g] = "download"
    /\ is_importing_model' = ImportingAfterDownload(ok)
    /\ model_generating' = FALSE
    /\ generating_percentage' = 0
    /\ search' = [search EXCEPT ![g] = "finished"]
    /\ ending' = [ending EXCEPT ![g] = IF ok THEN "imported" ELSE "download error"]
    /\ UNCHANGED <<gen_launcher, executing>>
    /\ UNCHANGED <<retryVars, svcVars, taskVars, importVars, pollVars, opVars,
                   cleanupVars, selVars, mcpVars>>

\* search_task's `except Exception`: show_error_dialog, and the flags are reset.
SearchTaskFails(g) ==
    /\ search[g] = "except"
    /\ model_generating' = FALSE
    /\ generating_percentage' = 0
    /\ search' = [search EXCEPT ![g] = "finished"]
    /\ ending' = [ending EXCEPT ![g] = "error"]
    /\ UNCHANGED <<gen_launcher, is_importing_model, executing>>
    /\ UNCHANGED <<retryVars, svcVars, taskVars, importVars, pollVars, opVars,
                   cleanupVars, selVars, mcpVars>>

GenerateNext ==
    \/ \E g \in Gens, posted \in BOOLEAN : GenerateExecute(g, posted)
    \/ HostWritesFlag
    \/ HostReturns
    \/ \E g \in Gens : TrackerEnter(g)
    \/ \E g \in Gens : UpdateProgress(g)
    \/ \E g \in Gens, ok \in BOOLEAN : ReceiveOneEnds(g, ok)
    \/ \E g \in Gens, found \in BOOLEAN : SelectUrl(g, found)
    \/ \E g \in Gens, ok \in BOOLEAN : DownloadEnds(g, ok)
    \/ \E g \in Gens : SearchTaskFails(g)

(***************************************************************************)
(* search_task and manager_search_task (api.py): the choice of the model's  *)
(* url among the fields of the result.                                      *)
(***************************************************************************)

\* The order for every version being that of the new versions.
FieldOrderAlwaysNew(v) == <<"pbr_model", "base_model", "model">>

\* model_fields = ["pbr_model", "base_model", "model"].
\* The order in which the fields are looked at: model_fields for the versions
\* v2.0-20240919 and v2.5-20250123, reversed(model_fields) for any other.
FieldOrder(v) ==
    IF v \in {"v2.0-20240919", "v2.5-20250123"}
    THEN <<"pbr_model", "base_model", "model">>
    ELSE <<"model", "base_model", "pbr_model">>

RECURSIVE SelectFrom(_, _, _, _, _)
\* The loop `for field in ...: if field in result_data: glb_model_url =
\* result_data[field].get("url"); model_type = result_data[field].get("type");
\* if glb_model_url: break`, from the i-th field of the order on, with the url
\* and the type assigned so far.  A missing url is "".
SelectFrom(order, data, i, url, type) ==
    IF i > Len(order) THEN [url |-> url, type |-> type]
    ELSE IF ~data[order[i]].present
    THEN SelectFrom(order, data, i + 1, url, type)
    ELSE IF data[order[i]].url # ""
    THEN [url |-> data[order[i]].url, type |-> data[order[i]].type]
    ELSE SelectFrom(order, data, i + 1, data[order[i]].url, data[order[i]].type)

SelectIdle ==
    /\ model_version = "v2.5-20250123"
    /\ result_data = [f \in {"pbr_model", "base_model", "model"} |->
                         [present |-> FALSE, url |-> "", type |-> ""]]
    /\ chosen = [outcome |-> "error", url |-> "", type |-> ""]

\* A result of any version, each field absent or present, with or without a url
\* (the url of a field is written as the field's name), of type glb or fbx.
SelectInit ==
    /\ model_version \in {"v2.0-20240919", "v2.5-20250123", "v1.4-20240625"}
    /\ result_data \in
           [{"pbr_model", "base_model", "model"} ->
               [present : BOOLEAN,
                url : {"", "pbr_model", "base_model", "model"},
                type : {"", "glb", "fbx"}]]
    /\ \A f \in DOMAIN result_data :
           IF result_data[f].present
           THEN result_data[f].url \in {"", f} /\ result_data[f].type # ""
           ELSE result_data[f].url = "" /\ result_data[f].type = ""
    /\ chosen = [outcome |-> "", url |-> "", type |-> ""]

\* search_task from the result on: without a url it raises, and its except
\* handler reports the error; with one it awaits gltf_model_download(url, ...,
\* model_type).
SearchTaskSelects ==
    /\ chosen.outcome = ""
    /\ LET got == SelectFrom(FieldOrder(model_version), result_data, 1, "", "")
       IN  chosen' = IF got.url = ""
                     THEN [outcome |-> "error", url |-> "", type |-> ""]
                     ELSE [outcome |-> "download", url |-> got.url,
                           type |-> got.type]
    /\ UNCHANGED <<model_version, result_data>>
    /\ UNCHANGED <<retryVars, svcVars, taskVars, importVars, pollVars, opVars,
                   cleanupVars, genVars, mcpVars>>

(***************************************************************************)
(* server.py: BlenderMCPServer, the socket server the host's timer drives, *)
(* and operators.py's BLENDERMCP_OT_StartServer / BLENDERMCP_OT_StopServer. *)
(* A command on the wire is the three pieces "{", its type, "}".            *)
(***************************************************************************)

\* Commands a client sends on one connection.
MaxCommands == 2

McpIdle ==
    /\ blendermcp_server_running = FALSE
    /\ blendermcp_server = FALSE
    /\ running = FALSE
    /\ socket_open = FALSE
    /\ timer = FALSE
    /\ client = "none"
    /\ buffer = <<>>
    /\ wire = <<>>
    /\ sent = <<>>
    /\ executed = <<>>
    /\ responses = <<>>
    /\ last_recv = ""
    /\ tick_result = ""
    /\ use_polyhaven = FALSE
    /\ cmd_type = ""
    /\ handler_ok = TRUE
    /\ has_view3d = TRUE
    /\ response = [status |-> "", called |-> FALSE, message |-> ""]

\* json.loads(self.buffer.decode("utf-8")): the command's type when the buffer
\* is exactly one command, JSONDecodeError when it is the beginning of one and
\* when anything follows the first one ("Extra data").
Decoded(b) ==
    IF Len(b) = 3 /\ b[1] = "{" /\ b[3] = "}" THEN b[2] ELSE "JSONDecodeError"

\* The Poly Haven handlers being in the table whatever the scene's setting.
HandlersWithPolyhaven(polyhaven) ==
    {"get_scene_info", "create_object", "modify_object", "delete_object",
     "get_object_info", "execute_code", "set_material", "get_polyhaven_status",
     "get_tripo_apikey", "import_tripo_glb_model", "get_polyhaven_categories",
     "search_polyhaven_assets", "download_polyhaven_asset", "set_texture"}

\* _execute_command_internal: the keys of `handlers`, after
\* `if bpy.context.scene.blendermcp_use_polyhaven: handlers.update(...)`.
Handlers(polyhaven) ==
    {"get_scene_info", "create_object", "modify_object", "delete_object",
     "get_object_info", "execute_code", "set_material", "get_polyhaven_status",
     "get_tripo_apikey", "import_tripo_glb_model"}
    \cup IF polyhaven
         THEN {"get_polyhaven_categories", "search_polyhaven_assets",
               "download_polyhaven_asset", "set_texture"}
         ELSE {}

\* execute_command(command): the response, and whether the command's handler
\* was called.  create_object, modify_object and delete_object first take the
\* first VIEW_3D area of the screen (an IndexError without one);
\* get_polyhaven_status and get_tripo_apikey are answered before the table is
\* built; a handler that raises is caught by _execute_command_internal, and
\* anything else by execute_command's own `except Exception`.
ExecuteCommand(type, polyhaven, ok, view3d) ==
    IF type \in {"create_object", "modify_object", "delete_object"} /\ ~view3d
    THEN [status |-> "error", called |-> FALSE, message |-> "IndexError"]
    ELSE IF type \in {"get_polyhaven_status", "get_tripo_apikey"}
               \/ type \in Handlers(polyhaven)
    THEN IF ok
         THEN [status |-> "success", called |-> TRUE, message |-> ""]
         ELSE [status |-> "error", called |-> TRUE, message |-> "str(e)"]
    ELSE [status |-> "error", called |-> FALSE, message |-> "Unknown command type"]

\* BLENDERMCP_OT_StartServer.execute: an instance is made when there is none,
\* start() is called on it, and the scene's flag is set.  start() sets running,
\* makes a socket and binds it; when that fails it calls stop().  stop()
\* unregisters the timer when is_registered finds it (unreg), closes the socket
\* and the client.
StartServer(bind_ok, unreg) ==
    /\ blendermcp_server' = TRUE
    /\ buffer' = IF blendermcp_server THEN buffer ELSE <<>>
    /\ IF bind_ok
       THEN /\ running' = TRUE
            /\ socket_open' = TRUE
            /\ timer' = TRUE
            /\ client' = IF blendermcp_server THEN client ELSE "none"
            /\ UNCHANGED wire
       ELSE /\ running' = FALSE
            /\ socket_open' = FALSE
            /\ timer' = IF unreg THEN FALSE ELSE blendermcp_server /\ timer
            /\ client' = "none"
            /\ wire' = <<>>
    /\ blendermcp_server_running' = TRUE
    /\ UNCHANGED <<sent, executed, responses, last_recv, tick_result,
                   use_polyhaven, cmd_type, handler_ok, has_view3d, response>>
    /\ UNCHANGED <<retryVars, svcVars, taskVars, importVars, pollVars, opVars,
                   cleanupVars, genVars, selVars>>

\* BLENDERMCP_OT_StopServer.execute: with an instance (it does nothing
\* without), stop() is called on it, bpy.blendermcp_server is set to None
\* and the scene's flag to False.  A
\* timer stop() did not unregister belongs to the dropped instance, whose
\* running is False: its next call returns None.
StopServer ==
    /\ blendermcp_server
    /\ blendermcp_server' = FALSE
    /\ running' = FALSE
    /\ socket_open' = FALSE
    /\ timer' = FALSE
    /\ client' = "none"
    /\ buffer' = <<>>
    /\ wire' = <<>>
    /\ blendermcp_server_running' = FALSE
    /\ UNCHANGED <<sent, executed, responses, last_recv, tick_result,
                   use_polyhaven, cmd_type, handler_ok, has_view3d, response>>
    /\ UNCHANGED <<retryVars, svcVars, taskVars, importVars, pollVars, opVars,
                   cleanupVars, genVars, selVars>>

\* A client connects to the listening socket (listen(1)).
ClientConnects ==
    /\ socket_open
    /\ client = "none"
    /\ client' = "pending"
    /\ wire' = <<>>
    /\ sent' = <<>>
    /\ executed' = <<>>
    /\ responses' = <<>>
    /\ UNCHANGED <<blendermcp_server_running, blendermcp_server, running,
                   socket_open, timer, buffer, last_recv, tick_result,
                   use_polyhaven, cmd_type, handler_ok, has_view3d, response>>
    /\ UNCHANGED <<retryVars, svcVars, taskVars, importVars, pollVars, opVars,
                   cleanupVars, genVars, selVars>>

\* The client sends one complete JSON command of type t.
ClientSends(t) ==
    /\ client \in {"pending", "connected"}
    /\ Len(sent) < MaxCommands
    /\ wire' = wire \o <<"{", t, "}">>
    /\ sent' = Append(sent, t)
    /\ UNCHANGED <<blendermcp_server_running, blendermcp_server, running,
                   socket_open, timer, client, buffer, executed, responses,
                   last_recv, tick_result, use_polyhaven, cmd_type, handler_ok,
                   has_view3d, response>>
    /\ UNCHANGED <<retryVars, svcVars, taskVars, importVars, pollVars, opVars,
                   cleanupVars, genVars, selVars>>

\* The host calls _process_server.  recv is what the call meets at
\* self.client.recv(8192): "data" (the first n pieces of the wire), "blocked"
\* (BlockingIOError), "eof" (b"": the client has gone) or "error" (any other
\* exception).  Not running, it returns None and the host drops the timer.
\* On "error" the handler calls get_logger().exeption, which the logger of
\* config.py does not have: the AttributeError reaches the enclosing handlers,
\* which make the same call, and leaves _process_server; the host may then
\* drop the timer (dropped).  The runs stop where the buffer would outgrow
\* the commands of one connection.
ProcessServer(recv, n, ok, dropped) ==
    /\ timer
    /\ IF ~running
       THEN /\ tick_result' = "None"
            /\ last_recv' = ""
            /\ timer' = FALSE
            /\ UNCHANGED <<client, buffer, wire, executed, responses>>
       ELSE IF client = "none"
       THEN /\ tick_result' = "0.1"
            /\ last_recv' = ""
            /\ UNCHANGED <<timer, client, buffer, wire, executed, responses>>
       ELSE /\ last_recv' = recv
            /\ CASE recv = "data" ->
                      /\ n \in 1..Len(wire)
                      /\ Len(buffer) + n <= 3 * MaxCommands
                      /\ wire' = SubSeq(wire, n + 1, Len(wire))
                      /\ LET buf == buffer \o SubSeq(wire, 1, n)
                         IN  IF Decoded(buf) # "JSONDecodeError"
                             THEN /\ buffer' = <<>>
                                  /\ executed' = Append(executed, Decoded(buf))
                                  /\ responses' = Append(responses,
                                         ExecuteCommand(Decoded(buf), use_polyhaven,
                                                        ok, has_view3d).status)
                             ELSE /\ buffer' = buf
                                  /\ UNCHANGED <<executed, responses>>
                      /\ client' = "connected"
                      /\ tick_result' = "0.1"
                      /\ UNCHANGED timer
                 [] recv = "blocked" ->
                      /\ wire = <<>>
                      /\ client' = "connected"
                      /\ tick_result' = "0.1"
                      /\ UNCHANGED <<timer, buffer, wire, executed, responses>>
                 [] recv = "eof" ->
                      /\ wire = <<>>
                      /\ client' = "none"
                      /\ buffer' = <<>>
                      /\ tick_result' = "0.1"
                      /\ UNCHANGED <<timer, wire, executed, responses>>
                 [] recv = "error" ->
                      /\ client' = "connected"
                      /\ tick_result' = "raised"
                      /\ timer' = ~dropped
                      /\ UNCHANGED <<buffer, wire, executed, responses>>
    /\ UNCHANGED <<blendermcp_server_running, blendermcp_server, running,
                   socket_open, sent, use_polyhaven, cmd_type, handler_ok,
                   has_view3d, response>>
    /\ UNCHANGED <<retryVars, svcVars, taskVars, importVars, pollVars, opVars,
                   cleanupVars, genVars, selVars>>

ServerNext ==
    \/ \E bind_ok, unreg \in BOOLEAN : StartServer(bind_ok, unreg)
    \/ StopServer
    \/ ClientConnects
    \/ \E t \in {"get_scene_info", "set_texture"} : ClientSends(t)
    \/ \E recv \in {"data", "blocked", "eof", "error"}, n \in 1..(3 * MaxCommands),
          ok, dropped \in BOOLEAN : ProcessServer(recv, n, ok, dropped)

\* execute_command is called with the command.
ExecuteCommandCalled ==
    /\ response.status = ""
    /\ response' = ExecuteCommand(cmd_type, use_polyhaven, handler_ok, has_view3d)
    /\ UNCHANGED <<blendermcp_server_running, blendermcp_server, running,
                   socket_open, timer, client, buffer, wire, sent, executed,
                   responses, last_recv, tick_result, use_polyhaven, cmd_type,
                   handler_ok, has_view3d>>
    /\ UNCHANGED <<retryVars, svcVars, taskVars, importVars, pollVars, opVars,
                   cleanupVars, genVars, selVars>>

(***************************************************************************)
(* The import pipelines: api.py gltf_model_download, models.py and          *)
(* __init__.py ModelImporter.import_model, utils.py generation; and the    *)
(* host: bpy.app.timers runs the registered callbacks one at a time on the *)
(* main thread, in registration order among those that are due.            *)
(***************************************************************************)

\* Jobs whose model is being imported in one run of the model.
MaxJobs == 2

Jobs == 1..MaxJobs

\* "gltf": api.py gltf_model_download; "importer": models.py
\* ModelImporter.import_model; "importer_init": __init__.py
\* ModelImporter.import_model; "generation": utils.py generation.
Pipelines == {"gltf", "importer", "importer_init", "generation"}

\* The pipelines that take ModelImporter._import_lock.
UsesLock(v) == v \in {"importer", "importer_init"}

\* models.py: `cls._import_lock.acquire(blocking=False)`; __init__.py: `with
\* cls._import_lock`, which blocks until the lock is free.
Blocking(v) == v = "importer_init"

\* generation calling import_model(model_file) itself instead of registering it.
RunsOnHostButGeneration(v) == v # "generation"

\* gltf_model_download calling import_glb_in_main itself, on the polling thread.
RunsOnHostButGltf(v) == v # "gltf"

\* Every pipeline hands its import function to bpy.app.timers.register: the
\* scene is changed by the host's main thread, not by the calling thread.
RunsOnHost(v) == TRUE

\* The name of the temporary file job j's model is downloaded into:
\* tempfile.NamedTemporaryFile and the client's download give every download
\* a file of its own.
FileOf(j) == j

ImportTimer(j) == [fn |-> "import", job |-> j, due |-> TRUE]

\* bpy.app.timers.register(cleanup, first_interval=5.0)
CleanupTimer(j) == [fn |-> "cleanup", job |-> j, due |-> FALSE]

\* The cleanup registered first and without first_interval.
RegisterTimersCleanupFirst(tm, j, v) ==
    IF v = "generation"
    THEN Append(tm, ImportTimer(j))
    ELSE Append(Append(tm, [CleanupTimer(j) EXCEPT !.due = TRUE]), ImportTimer(j))

\* The timers a pipeline registers, in order: generation registers import_model
\* alone (it removes the file itself); the others register the import function
\* and then cleanup with first_interval=5.0.
RegisterTimers(tm, j, v) ==
    IF v = "generation"
    THEN Append(tm, ImportTimer(j))
    ELSE Append(Append(tm, ImportTimer(j)), CleanupTimer(j))

\* The index of the first registered timer whose time has come, 0 if none.
FirstDue ==
    IF \E i \in DOMAIN timers : timers[i].due
    THEN CHOOSE i \in DOMAIN timers :
            /\ timers[i].due
            /\ \A k \in DOMAIN timers : timers[k].due => i <= k
    ELSE 0

Without(tm, i) == SubSeq(tm, 1, i - 1) \o SubSeq(tm, i + 1, Len(tm))

ImportIdle ==
    /\ pipeline = [j \in Jobs |-> "gltf"]
    /\ ipc = [j \in Jobs |-> "returned"]
    /\ file = [j \in Jobs |-> "none"]
    /\ imp = [j \in Jobs |-> "none"]
    /\ timers = <<>>
    /\ host = 0
    /\ import_lock = 0

\* Every job has reached Success; each is imported by one of the pipelines.
ImportInit ==
    /\ pipeline \in [Jobs -> Pipelines]
    /\ ipc = [j \in Jobs |-> "start"]
    /\ file = [j \in Jobs |-> "none"]
    /\ imp = [j \in Jobs |-> "none"]
    /\ timers = <<>>
    /\ host = 0
    /\ import_lock = 0

\* models.py: `if not cls._import_lock.acquire(blocking=False):
\* show_error_dialog("Already importing a model. Please wait."); return False`
TryAcquire(j) ==
    /\ ipc[j] = "start"
    /\ UsesLock(pipeline[j]) /\ ~Blocking(pipeline[j])
    /\ IF import_lock = 0
       THEN /\ import_lock' = j
            /\ ipc' = [ipc EXCEPT ![j] = "locked"]
       ELSE /\ import_lock' = import_lock
            /\ ipc' = [ipc EXCEPT ![j] = "rejected"]
    /\ UNCHANGED <<pipeline, file, imp, timers, host>>
    /\ UNCHANGED <<retryVars, svcVars, taskVars, pollVars,
                   opVars, cleanupVars,
                   genVars, selVars, mcpVars>>

\* __init__.py: `with cls._import_lock:` waits until the lock is free.
AcquireBlocking(j) ==
    /\ ipc[j] = "start"
    /\ UsesLock(pipeline[j]) /\ Blocking(pipeline[j])
    /\ import_lock = 0
    /\ import_lock' = j
    /\ ipc' = [ipc EXCEPT ![j] = "locked"]
    /\ UNCHANGED <<pipeline, file, imp, timers, host>>
    /\ UNCHANGED <<retryVars, svcVars, taskVars, pollVars,
                   opVars, cleanupVars,
                   genVars, selVars, mcpVars>>

Fetching(j) == ipc[j] = (IF UsesLock(pipeline[j]) THEN "locked" ELSE "start")

\* The model is downloaded into the job's temporary file.
FetchReturns(j) ==
    /\ Fetching(j)
    /\ file' = [file EXCEPT ![FileOf(j)] = "exists"]
    /\ ipc' = [ipc EXCEPT ![j] = "fetched"]
    /\ UNCHANGED <<pipeline, imp, timers, host, import_lock>>
    /\ UNCHANGED <<retryVars, svcVars, taskVars, pollVars,
                   opVars, cleanupVars,
                   genVars, selVars, mcpVars>>

\* An import_model without `finally`: a failure leaves the lock as it is.
ReleasedOnFailureNever(l, j) == l

\* The lock after a failure inside the try of call j: `finally:
\* cls._import_lock.release()` (models.py) and leaving `with cls._import_lock`
\* (__init__.py) free the lock the call holds; the other pipelines hold none.
ReleasedOnFailure(l, j) == IF l = j THEN 0 ELSE l

\* The download fails (an exception, or a response code other than 200): the
\* error is reported, the lock is released by `finally` / `with`.
FetchRaises(j) ==
    /\ Fetching(j)
    /\ ipc' = [ipc EXCEPT ![j] = "failed"]
    /\ import_lock' = ReleasedOnFailure(import_lock, j)
    /\ UNCHANGED <<pipeline, file, imp, timers, host>>
    /\ UNCHANGED <<retryVars, svcVars, taskVars, pollVars,
                   opVars, cleanupVars,
                   genVars, selVars, mcpVars>>

\* The import is handed over: the timers are registered, the lock is released
\* and the call returns.
Schedule(j) ==
    /\ ipc[j] = "fetched"
    /\ IF RunsOnHost(pipeline[j])
       THEN /\ timers' = RegisterTimers(timers, j, pipeline[j])
            /\ imp' = [imp EXCEPT ![j] = "registered"]
       ELSE /\ timers' = timers
            /\ imp' = [imp EXCEPT ![j] = "running"]
    /\ import_lock' = IF import_lock = j THEN 0 ELSE import_lock
    /\ ipc' = [ipc EXCEPT ![j] = "returned"]
    /\ UNCHANGED <<pipeline, file, host>>
    /\ UNCHANGED <<retryVars, svcVars, taskVars, pollVars,
                   opVars, cleanupVars,
                   genVars, selVars, mcpVars>>

\* Writing the temporary file or registering a timer raises: nothing more is
\* registered, the error is reported, the lock is released by `finally` / `with`.
ScheduleRaises(j) ==
    /\ ipc[j] = "fetched"
    /\ ipc' = [ipc EXCEPT ![j] = "failed"]
    /\ import_lock' = ReleasedOnFailure(import_lock, j)
    /\ UNCHANGED <<pipeline, file, imp, timers, host>>
    /\ UNCHANGED <<retryVars, svcVars, taskVars, pollVars,
                   opVars, cleanupVars,
                   genVars, selVars, mcpVars>>

\* Five seconds pass: the cleanup timers registered so far are due.
TimePasses ==
    /\ \E i \in DOMAIN timers : ~timers[i].due
    /\ timers' = [i \in DOMAIN timers |-> [timers[i] EXCEPT !.due = TRUE]]
    /\ UNCHANGED <<pipeline, ipc, file, imp, host, import_lock>>
    /\ UNCHANGED <<retryVars, svcVars, taskVars, pollVars,
                   opVars, cleanupVars,
                   genVars, selVars, mcpVars>>

\* The idle host thread starts the first due timer, an import function.
HostBeginsImport ==
    /\ host = 0
    /\ FirstDue # 0
    /\ timers[FirstDue].fn = "import"
    /\ host' = timers[FirstDue].job
    /\ imp' = [imp EXCEPT ![timers[FirstDue].job] = "running"]
    /\ timers' = Without(timers, FirstDue)
    /\ UNCHANGED <<pipeline, ipc, file, import_lock>>
    /\ UNCHANGED <<retryVars, svcVars, taskVars, pollVars,
                   opVars, cleanupVars,
                   genVars, selVars, mcpVars>>

\* The import function ends.  generation's import_model ends with
\* os.remove(model_file), which a raising import does not reach.
HostEndsImport(ok) ==
    /\ host # 0
    /\ imp' = [imp EXCEPT ![host] = IF ok THEN "finished" ELSE "raised"]
    /\ file' = [file EXCEPT ![FileOf(host)] =
                   IF ok /\ pipeline[host] = "generation" THEN "deleted" ELSE @]
    /\ host' = 0
    /\ UNCHANGED <<pipeline, ipc, timers, import_lock>>
    /\ UNCHANGED <<retryVars, svcVars, taskVars, pollVars,
                   opVars, cleanupVars,
                   genVars, selVars, mcpVars>>

\* The idle host thread runs the first due timer, a cleanup: os.unlink(path).
HostRunsCleanup ==
    /\ host = 0
    /\ FirstDue # 0
    /\ timers[FirstDue].fn = "cleanup"
    /\ file' = [file EXCEPT ![FileOf(timers[FirstDue].job)] = "deleted"]
    /\ timers' = Without(timers, FirstDue)
    /\ UNCHANGED <<pipeline, ipc, imp, host, import_lock>>
    /\ UNCHANGED <<retryVars, svcVars, taskVars, pollVars,
                   opVars, cleanupVars,
                   genVars, selVars, mcpVars>>

ImportNext ==
    \/ \E j \in Jobs : TryAcquire(j)
    \/ \E j \in Jobs : AcquireBlocking(j)
    \/ \E j \in Jobs : FetchReturns(j)
    \/ \E j \in Jobs : FetchRaises(j)
    \/ \E j \in Jobs : Schedule(j)
    \/ \E j \in Jobs : ScheduleRaises(j)
    \/ TimePasses
    \/ HostBeginsImport
    \/ \E ok \in BOOLEAN : HostEndsImport(ok)
    \/ HostRunsCleanup

InitImport == RetryIdle /\ SvcIdle /\ TasksIdle /\ ImportInit /\ PollIdle
    /\ OperatorIdle /\ CleanupIdle /\ GenerateIdle /\ SelectIdle /\ McpIdle

SpecImport == InitImport /\ [][ImportNext]_vars

InitPoll == RetryIdle /\ SvcIdle /\ TasksIdle /\ ImportIdle /\ PollInit
    /\ OperatorIdle /\ CleanupIdle /\ GenerateIdle /\ SelectIdle /\ McpIdle

SpecPoll == InitPoll /\ [][PollNext]_vars

\* The polling loop under fair scheduling: the event loop resumes the coroutine
\* when the call or the sleep it awaits is over, so a step that can be taken is
\* taken.
InitOperator == RetryIdle /\ SvcIdle /\ TasksIdle /\ ImportIdle /\ PollIdle
    /\ OperatorInit /\ CleanupIdle /\ GenerateIdle /\ SelectIdle /\ McpIdle

SpecOperator == InitOperator /\ [][OperatorNext]_vars

InitCleanup == RetryIdle /\ SvcIdle /\ TasksIdle /\ ImportIdle /\ PollIdle
    /\ OperatorIdle /\ CleanupInit /\ GenerateIdle /\ SelectIdle /\ McpIdle

SpecCleanup == InitCleanup /\ [][CleanupNext]_vars

InitGenerate == RetryIdle /\ SvcIdle /\ TasksIdle /\ ImportIdle /\ PollIdle
    /\ OperatorIdle /\ CleanupIdle /\ GenerateInit /\ SelectIdle /\ McpIdle

SpecGenerate == InitGenerate /\ [][GenerateNext]_vars

InitSelect == RetryIdle /\ SvcIdle /\ TasksIdle /\ ImportIdle /\ PollIdle
    /\ OperatorIdle /\ CleanupIdle /\ GenerateIdle /\ SelectInit /\ McpIdle

SpecSelect == InitSelect /\ [][SearchTaskSelects]_vars

InitServer ==
    /\ RetryIdle /\ SvcIdle /\ TasksIdle /\ ImportIdle /\ PollIdle
    /\ OperatorIdle /\ CleanupIdle /\ GenerateIdle /\ SelectIdle
    /\ blendermcp_server_running = FALSE
    /\ blendermcp_server = FALSE
    /\ running = FALSE
    /\ socket_open = FALSE
    /\ timer = FALSE
    /\ client = "none"
    /\ buffer = <<>>
    /\ wire = <<>>
    /\ sent = <<>>
    /\ executed = <<>>
    /\ responses = <<>>
    /\ last_recv = ""
    /\ tick_result = ""
    /\ use_polyhaven \in BOOLEAN
    /\ cmd_type = ""
    /\ handler_ok = TRUE
    /\ has_view3d = TRUE
    /\ response = [status |-> "", called |-> FALSE, message |-> ""]

SpecServer == InitServer /\ [][ServerNext]_vars

InitDispatch ==
    /\ RetryIdle /\ SvcIdle /\ TasksIdle /\ ImportIdle /\ PollIdle
    /\ OperatorIdle /\ CleanupIdle /\ GenerateIdle /\ SelectIdle
    /\ blendermcp_server_running = FALSE
    /\ blendermcp_server = FALSE
    /\ running = FALSE
    /\ socket_open = FALSE
    /\ timer = FALSE
    /\ client = "none"
    /\ buffer = <<>>
    /\ wire = <<>>
    /\ sent = <<>>
    /\ executed = <<>>
    /\ responses = <<>>
    /\ last_recv = ""
    /\ tick_result = ""
    /\ use_polyhaven \in BOOLEAN
    /\ cmd_type \in Handlers(TRUE) \cup {"unknown_command"}
    /\ handler_ok \in BOOLEAN
    /\ has_view3d \in BOOLEAN
    /\ response = [status |-> "", called |-> FALSE, message |-> ""]

SpecDispatch == InitDispatch /\ [][ExecuteCommandCalled]_vars

SpecPollFair == InitPoll /\ [][PollNext]_vars /\ WF_vars(PollNext)

Init == RetryIdle /\ SvcInit /\ TasksIdle /\ ImportIdle /\ PollIdle
    /\ OperatorIdle /\ CleanupIdle /\ GenerateIdle /\ SelectIdle /\ McpIdle

Next ==
    \/ \E c \in Calls : StartGenerate(c)
    \/ \E c \in Calls, id \in Ids : StartAttach(c, id)
    \/ \E c \in Calls : SubmitReturns(c)
    \/ \E c \in Calls : SubmitRaises(c)
    \/ \E c \in Calls, s \in SvcStatuses : GetTaskReplies(c, s)
    \/ \E c \in Calls : GetTaskRaises(c)
    \/ \E c \in Calls : Resume(c)
    \/ \E c \in Calls, image \in BOOLEAN : DownloadReturns(c, image)
    \/ \E c \in Calls : DownloadRaises(c)

Spec == Init /\ [][Next]_vars

(***************************************************************************)
(* The specification of the retry wrappers                                 *)
(***************************************************************************)

RetryNext ==
    /\ InvokeReturns \/ InvokeRaises \/ Backoff
    /\ UNCHANGED <<svcVars, taskVars, importVars, pollVars,
                   opVars, cleanupVars,
                   genVars, selVars, mcpVars>>

InitRetry == RetryInit /\ SvcIdle /\ TasksIdle /\ ImportIdle /\ PollIdle
    /\ OperatorIdle /\ CleanupIdle /\ GenerateIdle /\ SelectIdle /\ McpIdle

SpecRetry == InitRetry /\ [][RetryNext]_vars

(***************************************************************************)
(* Claims                                                                  *)
(***************************************************************************)

Entries == DOMAIN tripo_tasks

\* A call has left the polling loop of receive_one.
Left(c) == pc[c] \in {"download", "done", "error"}

C2_UniqueTaskIds ==
    \A i, k \in Entries :
        (i # k /\ tripo_tasks[i].task_id # 0)
            => tripo_tasks[i].task_id # tripo_tasks[k].task_id

ImportOver(j) == imp[j] \in {"finished", "raised"}

\* C4: at most one import is in progress at any instant.
C4_OneImportAtATime ==
    Cardinality({j \in Jobs : imp[j] = "running"}) <= 1

\* C4 witness: two jobs have completed; the import of one is running while that
\* of the other waits for the host thread.
C4_Witness ==
    \E j, k \in Jobs : j # k /\ imp[j] = "running" /\ imp[k] = "registered"

\* C5: an import request arriving while the lock is held is never rejected.
C5_NeverRejected == \A j \in Jobs : ipc[j] # "rejected"

\* C6: a job's temporary model file is deleted only after the job's own import
\* callback has run to its end.
C6_DeletedOnlyAfterOwnImport ==
    \A j \in Jobs : file[FileOf(j)] = "deleted" => ImportOver(j)

\* C6 witness: one job's file has been deleted after its import, while another
\* job's import has not finished and its file is still there.
C6_Witness ==
    \E j, k \in Jobs :
        /\ j # k
        /\ file[FileOf(j)] = "deleted" /\ ImportOver(j)
        /\ imp[k] \in {"registered", "running"} /\ file[FileOf(k)] = "exists"

\* A status of the last response that the loop does not know.
UnknownTo(l) == PollStatuses \ (InFlight \cup Terminal \cup SuccessOf(l))

\* C11: a status query that fails is tried again; the polling loop gives up on a
\* failing query only after MAX_RETRIES consecutive failed attempts of it.
C11_QueryGivesUpAfterRetries ==
    (ppc = "raised" /\ perr.from = "query") => qtries = MAX_RETRIES

\* C12: in utils.py, after a queued or running observation the delay is
\* max(2, e * 0.5) seconds when the response carries the estimate e, and twice
\* the delay of the previous iteration when it carries none.
C12_DelayStep ==
    loop = "utils" =>
        /\ Len(estimates) = Len(sleeps)
        /\ \A i \in 1..Len(sleeps) :
               /\ estimates[i] # NoEstimate =>
                      sleeps[i] = Max(Seconds(2), estimates[i])
               /\ (estimates[i] = NoEstimate /\ i > 1) =>
                      sleeps[i] = 2 * sleeps[i - 1]

\* C12 witness: an estimate of 10 s gave a delay of 5 s, an estimate of 8 s a
\* delay of 4 s, and the response without estimate that followed gave 8 s.
C12_Witness ==
    /\ loop = "utils"
    /\ estimates = <<10, 8, NoEstimate>>
    /\ sleeps = <<Seconds(5), Seconds(4), Seconds(8)>>

\* C13: when no response carries an estimate, the first sleep of the polling
\* loop lasts 2 seconds and each later one twice the one before it.
C13_DelaysStartAtTwoSeconds ==
    (/\ loop = "utils"
     /\ Len(sleeps) >= 1
     /\ \A i \in 1..Len(estimates) : estimates[i] = NoEstimate) =>
        /\ sleeps[1] = Seconds(2)
        /\ \A i \in 2..Len(sleeps) : sleeps[i] = 2 * sleeps[i - 1]

\* C15: once a response carried a status the loop does not know, the loop has
\* raised an unknown-status error; it is at no position from which it asks again.
C15_UnknownStatusEndsPolling ==
    observed \in UnknownTo(loop) =>
        /\ ppc = "raised"
        /\ perr = [kind |-> "UNKNOWN_STATUS", from |-> "status"]

\* C15 witness: the loop polled a running job, then read a status it does not
\* know, and raised.
C15_Witness ==
    /\ observed = "cancelled"
    /\ Len(sleeps) >= 1
    /\ ppc = "raised"

\* C16: a loop that ends on a banned job raises an error of a kind of its own,
\* neither the kind raised for a failed job nor the kind raised for an unknown
\* status.
C16_BannedHasItsOwnKind ==
    (ppc = "raised" /\ perr.from = "status" /\ observed = "banned") =>
        perr.kind \notin {"TASK_FAILED", "UNKNOWN_STATUS"}

\* C17: a failure of the balance query never fails the job: no error of the
\* balance query leaves the polling loop.
C17_BalanceFailureNeverFailsJob ==
    ppc = "raised" => perr.from # "balance"

\* C18: a balance fetch whose attempts fail is attempted MAX_RETRIES times in
\* all before the failure is logged and swallowed.
C18_BalanceFetchIsRetried ==
    (bfailed /\ ppc # "balance") => (btries = MAX_RETRIES /\ ppc = "returned")

\* The statuses that end a polling run without a model.
Unsuccessful == {"failed", "banned"} \cup Unrecognized

\* C14: for a call whose polling ended with Failed, Banned or an unrecognized
\* status, no import callback is registered and the job's registry entry holds
\* that last observed status.
C14_UnsuccessfulJobKeepsStatus ==
    \A c \in Calls :
        (pc[c] = "error" /\ status[c] \in Unsuccessful) =>
            /\ ~import_registered[c]
            /\ tripo_tasks[current_task[c]].status = status[c]

\* C19: whatever fails, generation returns without raising.
C19_GenerationNeverRaises == \A c \in Calls : GenerationRaised(c) = ""

\* C20: the import lock is held by a call exactly while that call is between
\* its acquisition and its return: no call that has returned (normally, after a
\* failure, or rejected) still holds it, and no call in progress that acquired it
\* has lost it to a release by another call.
C20_LockNeverLeaked ==
    \A j \in Jobs :
        import_lock = j <=>
            (UsesLock(pipeline[j]) /\ ipc[j] \in {"locked", "fetched"})

\* C20 witness: one call was rejected because the lock was held, the call that
\* held it has failed after acquiring it, and the lock is free.
C20_Witness ==
    \E j, k \in Jobs :
        /\ ipc[j] = "rejected"
        /\ UsesLock(pipeline[k]) /\ ipc[k] = "failed"
        /\ import_lock = 0

\* The wrapped operation fails at every invocation.
AlwaysFails == \A i \in 1..MAX_RETRIES : outcome[i] # "ok"

\* The wrapped operation fails k times and then succeeds.
FailsThenSucceeds(k) ==
    /\ \A i \in 1..k : outcome[i] # "ok"
    /\ outcome[k + 1] = "ok"

\* C7: an operation that fails at every invocation is invoked exactly
\* MAX_RETRIES times, and the wrapper then raises the error of the last
\* invocation.
C7_ExhaustionRaisesLastError ==
    (rpc = "done" /\ AlwaysFails) =>
        /\ invocations = MAX_RETRIES
        /\ result = ErrorOf(MAX_RETRIES)

\* C8: an operation that fails k < MAX_RETRIES times and then succeeds is invoked
\* exactly k+1 times, the wrapper returns that success value, and exactly k
\* warnings are logged.
C8_RecoveryReturnsFirstSuccess ==
    \A k \in 0..(MAX_RETRIES - 1) :
        (rpc = "done" /\ FailsThenSucceeds(k)) =>
            /\ invocations = k + 1
            /\ result = ReturnOf(k + 1)
            /\ Len(warnings) = k

\* C9: whatever the kind of the error the operation raises, the wrapper lets an
\* error out only after MAX_RETRIES attempts have been made.
C9_EveryErrorKindIsRetried ==
    \A e \in ErrorKinds :
        (rpc = "done" /\ result.kind = "raise" /\ result.error = e) =>
            invocations = MAX_RETRIES

\* C10: the i-th wait lasts 2^(i-1) seconds, there are never more waits than
\* attempts made, and when the wrapper has finished every wait was followed by
\* an attempt: waits = attempts - 1, so no wait follows the final attempt.
C10_BackoffSchedule ==
    /\ \A i \in 1..Len(waits) : waits[i] = INITIAL_RETRY_DELAY * 2 ^ (i - 1)
    /\ Len(waits) <= invocations
    /\ rpc = "call" => Len(waits) = invocations
    /\ rpc = "done" => Len(waits) = invocations - 1

\* C10 witness: an exhausted run of 3 attempts has waited 1 s, then 2 s.
C10_Witness ==
    /\ rpc = "done"
    /\ result.kind = "raise"
    /\ invocations = MAX_RETRIES
    /\ waits = <<1, 2>>

\* The calls have all come to their end, no timer is left and the host is idle.
ImportQuiescent ==
    /\ \A j \in Jobs : ipc[j] \in {"returned", "rejected", "failed"}
    /\ timers = <<>>
    /\ host = 0

\* C22: the import logic, which changes the scene, runs only inside a callback
\* of the host thread: an import in progress is the one the host thread is
\* running, never one run by the polling task or a background thread.
C22_ImportOnlyOnHostThread ==
    \A j \in Jobs : imp[j] = "running" => host = j

\* C22 witness: the host thread runs the import of one job while the calling
\* thread of another job is still inside its pipeline.
C22_Witness ==
    \E j, k \in Jobs :
        /\ j # k
        /\ imp[j] = "running" /\ host = j
        /\ ipc[k] \in {"locked", "fetched"}

\* C24: every temporary file the import pipeline creates is deleted on every
\* exit path: once the calls have ended and the host has run every callback,
\* no temporary file is left.
C24_EveryTempFileDeleted ==
    ImportQuiescent => \A j \in Jobs : file[FileOf(j)] # "exists"

\* No generation call is in progress.
AllOver == \A c \in Calls : pc[c] \in {"idle", "done", "error"}

\* C25: for every call whose polling ended in Success and whose downloads
\* succeeded, the import callback has been handed to the host once, and, when no
\* call is in progress any more, the job's registry entry has status Success.
C25_SuccessImportedAndRecorded ==
    \A c \in Calls :
        pc[c] = "done" =>
            /\ import_registered[c]
            /\ AllOver => tripo_tasks[current_task[c]].status = "success"

\* The statuses of the per-job state machine.
StatusEnum == InFlight \cup Terminal

\* C26: at every step each entry's status stays within Queued, Running, Success,
\* Failed, Banned (or the "not initialized" of an entry not polled yet), it is
\* changed only by a step of the polling loop, and a status that changes was
\* Queued, Running or "not initialized": a terminal status is never left.
C26_StatusFollowsStateMachine ==
    [][\A i \in Entries :
          LET a == tripo_tasks[i].status
              b == tripo_tasks'[i].status
          IN  /\ b \in StatusEnum \cup {"not initialized"}
              /\ a # b => /\ a \in InFlight \cup {"not initialized"}
                          /\ \E c \in Calls : Resume(c)]_vars

\* C27: when no call is in progress any more, every entry holds the latest
\* status the service reported for the entry's own id, and no two entries hold
\* the same id.
C27_InterleavedUpdatesSafe ==
    AllOver =>
        /\ \A i \in Entries :
               (tripo_tasks[i].task_id # 0 /\ \E c \in Calls : task_id[c] = tripo_tasks[i].task_id /\ status[c] # "")
                   => tripo_tasks[i].status = svc[tripo_tasks[i].task_id]
        /\ \A i, k \in Entries :
               (tripo_tasks[i].task_id # 0 /\ tripo_tasks[i].task_id = tripo_tasks[k].task_id)
                   => i = k

\* C28: an entry whose type (and with it its prompt) is set keeps both in every
\* step; a poll of an entry that has no type takes the type from the response.
C28_KindAndInputSetOnce ==
    [][/\ \A i \in Entries :
             tripo_tasks[i].task_type # "" =>
                 /\ tripo_tasks'[i].task_type = tripo_tasks[i].task_type
                 /\ tripo_tasks'[i].prompt = tripo_tasks[i].prompt
       /\ \A c \in Calls :
             (Resume(c) /\ tripo_tasks[current_task[c]].task_type = "") =>
                 tripo_tasks'[current_task[c]].task_type = jtype[task_id[c]]]_vars

\* C28 witness: one call attached to a job of an earlier session, and its first
\* poll gave the entry its type and prompt; a second call attached to the same
\* job has polled the same entry since, and the entry still has them.
C28_Witness ==
    \E c, d \in Calls :
        /\ c # d
        /\ arg[c] = "id" /\ arg[d] = "id"
        /\ current_task[c] = current_task[d] /\ current_task[c] # 0
        /\ status[c] # "" /\ status[d] # ""
        /\ tripo_tasks[current_task[c]].task_type = "text_to_model"
        /\ tripo_tasks[current_task[c]].prompt = "prompt"

\* C30: the registry only grows: in every step it keeps its entries, each at
\* its place with the id it holds, and new entries come after them.
C30_RegistryOnlyGrows ==
    [][/\ Len(tripo_tasks') >= Len(tripo_tasks)
       /\ \A i \in Entries :
             \/ tripo_tasks[i].task_id = 0
             \/ tripo_tasks'[i].task_id = tripo_tasks[i].task_id]_vars

\* C30 witness: two entries, added by two calls, the first of which has failed
\* and the second of which has completed.
C30_Witness ==
    /\ Len(tripo_tasks) >= 2
    /\ \E c, d \in Calls :
           /\ c # d /\ pc[c] = "error" /\ pc[d] = "done"
           /\ task[c] # task[d]
           /\ tripo_tasks[task[c]].task_id # 0 /\ tripo_tasks[task[d]].task_id # 0

\* C29: under fair scheduling, with a service that reports a status other than
\* Queued and Running after finitely many polls, the polling loop comes to an
\* end (it returns the task or raises); and it never gives up on a job that is
\* Queued or Running: the only errors it raises on an answered query are for the
\* other statuses, and it returns only on success.
C29_PollingResolves ==
    /\ <>(ppc \in {"returned", "raised"})
    /\ [](/\ (ppc = "raised" /\ perr.from = "status") => observed \notin InFlight
          /\ ppc \in {"balance", "returned"} => observed \in SuccessOf(loop))

\* C29 witness: the job was reported Queued or Running as many times as the
\* model allows, the loop slept after each of these answers and asked again, and
\* it has returned on success.
C29_Witness ==
    /\ Len(sleeps) = MaxPolls
    /\ observed = "success"
    /\ ppc = "returned"
    /\ ~bfailed

\* C21: the host thread is never held while a job is in flight: while the job
\* is queued or running the host thread is outside the operator, and so it is
\* during every polling wait and every retry backoff.
C21_HostThreadNeverHeld ==
    /\ job \in InFlight => host_thread = "free"
    /\ opc \in {"backoff", "sleep"} => host_thread = "free"

\* C23: cleanup() never raises, and when it has returned the owned list is
\* empty and no file the manager created is left that could be deleted.
C23_CleanupNeverRaises ==
    /\ cleanup_result # "raised"
    /\ cleanup_result = "returned" =>
           /\ temp_files = <<>>
           /\ \A f \in Files : disk[f] # "present"

\* C31: in the threaded variant, once the monitoring threads have finished and
\* the operator has returned, the generating flag is False.
C31_FlagFalseAfterThread ==
    (/\ Threaded(gen_launcher)
     /\ executing = 0
     /\ \A g \in Gens : search[g] \in {"none", "cancelled", "finished"})
        => ~model_generating

\* C32: after api.py's search_task has finished, on any path, the generating
\* flag is False, the percentage is 0 and the importing flag is False.
C32_FlagsResetAfterSearchTask ==
    (/\ ~Threaded(gen_launcher)
     /\ \A g \in Gens : search[g] \in {"none", "cancelled", "finished"}) =>
        /\ ~model_generating
        /\ generating_percentage = 0
        /\ ~is_importing_model

\* C32 witness: three search_task runs have finished, one with the import
\* registered, one after a failed download and one through its except handler.
C32_Witness ==
    /\ ~Threaded(gen_launcher)
    /\ \E g, h, k \in Gens :
           /\ ending[g] = "imported"
           /\ ending[h] = "download error"
           /\ ending[k] = "error"

\* C33: at most one generation is being monitored at any time.
C33_AtMostOneMonitored ==
    Cardinality({g \in Gens : search[g] \in Monitoring}) <= 1

\* C34: search_task uses the first field, in the order pbr_model, base_model,
\* model for the versions v2.0-20240919 and v2.5-20250123 and in the order
\* model, base_model, pbr_model for any other, whose entry has a url; the type
\* it imports with is that entry's; and when no entry has a url it reports an
\* error and downloads nothing.
C34_UrlSelection ==
    chosen.outcome # "" =>
        LET priority == IF model_version \in {"v2.0-20240919", "v2.5-20250123"}
                        THEN <<"pbr_model", "base_model", "model">>
                        ELSE <<"model", "base_model", "pbr_model">>
            HasUrl(f) == result_data[f].present /\ result_data[f].url # ""
            firsts == {i \in 1..3 : HasUrl(priority[i])
                                    /\ \A k \in 1..(i - 1) : ~HasUrl(priority[k])}
        IN  IF firsts = {}
            THEN chosen.outcome = "error"
            ELSE \A i \in firsts :
                    /\ chosen.outcome = "download"
                    /\ chosen.url = result_data[priority[i]].url
                    /\ chosen.type = result_data[priority[i]].type

\* C34 witness: a result of an older version whose model entry has no url and
\* is of type fbx, and whose base_model and pbr_model entries both have one:
\* search_task downloads base_model's url, with base_model's type.
C34_Witness ==
    /\ model_version = "v1.4-20240625"
    /\ result_data["model"].present /\ result_data["model"].url = ""
    /\ result_data["model"].type = "fbx"
    /\ result_data["base_model"].url # "" /\ result_data["base_model"].type = "glb"
    /\ result_data["pbr_model"].url # ""
    /\ chosen.outcome = "download"
    /\ chosen.url = "base_model"

\* C35: once the server has read everything a connected client has sent, every
\* command the client sent has been executed exactly once, in order, and has
\* been answered with one response, however recv split or joined the bytes.
C35_EveryCommandExecutedOnce ==
    (/\ running
     /\ client = "connected"
     /\ wire = <<>>
     /\ last_recv \in {"data", "blocked"}
     /\ tick_result = "0.1")
        => /\ executed = sent
           /\ Len(responses) = Len(sent)

\* C36: when recv failed with an error other than BlockingIOError the call
\* has closed the client, set client to None, emptied the buffer and returned
\* 0.1, leaving the timer registered; and the timer is gone through a
\* returned None only when the server is not running.
C36_RecvErrorRecovered ==
    /\ last_recv = "error" =>
           /\ client = "none"
           /\ buffer = <<>>
           /\ tick_result = "0.1"
           /\ timer
    /\ (tick_result = "None" /\ ~timer) => ~running

\* C37: scene.blendermcp_server_running is True exactly when there is a server
\* instance that is running, with its socket open and its timer registered.
C37_FlagMatchesServer ==
    blendermcp_server_running <=>
        (blendermcp_server /\ running /\ socket_open /\ timer)

====
